---- MODULE Spec2Model ----
(***************************************************************************)
(* A model of app.py (Sutton House market monitor): the canonical STATE    *)
(* dictionary, the /webhook and /ingest_macro ingestion handlers with      *)
(* their payload dialects, the derived alert ("war") rule, the state lock  *)
(* and the macro_update publication, the webhook secret, the snapshot file *)
(* across restarts, and the attempt limiter of /verify_secret.             *)
(*                                                                         *)
(* Python values are records [t, n, s]: t is the Python type, n the number *)
(* (floats are fixed-point, in hundredths), s the string as a sequence of  *)
(* characters.  A dictionary is a function from keys to values in which a  *)
(* missing key maps to Absent; a nested dictionary inside a payload is a   *)
(* reference PyDict(i) to Heap[i].                                         *)
(***************************************************************************)
EXTENDS Integers, Sequences, FiniteSets, Bags, TLC

VARIABLES State, clock, last, resp, published, disk, lock, pc, req, snap, committed,
          WEBHOOK_SECRET, ATTEMPTS, time, vpc, tried

vars == <<State, clock, last, resp, published, disk, lock, pc, req, snap, committed,
          WEBHOOK_SECRET, ATTEMPTS, time, vpc, tried>>

(***************************************************************************)
(* Bounds of the model.                                                    *)
(***************************************************************************)
\* Number of ingestions and connections in one behaviour (each advances the clock).
MaxClock == 3
\* Number of ingestions and connections in one behaviour of waiting requests.
MaxLive == 2
\* Instrument levels of the alert rule range over -1..MaxLevel.
MaxLevel == 9
\* Request-handling threads of the concurrent specifications.
MaxThreads == 2
\* /verify_secret attempts in one behaviour, and the last instant of time.time().
MaxTried == 7
MaxTime == 300

(***************************************************************************)
(* Python values.                                                          *)
(***************************************************************************)
Absent == [t |-> "absent", n |-> 0, s |-> <<>>]
PyNone == [t |-> "null", n |-> 0, s |-> <<>>]
PyInt(i) == [t |-> "int", n |-> i, s |-> <<>>]
PyFloat(h) == [t |-> "float", n |-> h, s |-> <<>>]
PyBool(b) == [t |-> "bool", n |-> IF b THEN 1 ELSE 0, s |-> <<>>]
PyStr(chars) == [t |-> "str", n |-> 0, s |-> chars]
PyDict(i) == [t |-> "obj", n |-> i, s |-> <<>>]

\* data.get(k): a missing key reads as None.
Get(d, k) == IF d[k] = Absent THEN PyNone ELSE d[k]
\* k in data
Has(d, k) == d[k] # Absent

\* Python truthiness (a dictionary of a payload is never empty here).
Truthy(v) ==
    CASE v.t = "absent" -> FALSE
      [] v.t = "null" -> FALSE
      [] v.t = "int" -> v.n # 0
      [] v.t = "float" -> v.n # 0
      [] v.t = "bool" -> v.n # 0
      [] v.t = "str" -> v.s # <<>>
      [] OTHER -> TRUE

\* a or b
Or(a, b) == IF Truthy(a) THEN a ELSE b

(***************************************************************************)
(* Python built-ins on strings and numbers: str.upper, str.strip,          *)
(* str.split, str(), float(), int().                                       *)
(***************************************************************************)
LowerAZ == <<"a","b","c","d","e","f","g","h","i","j","k","l","m",
             "n","o","p","q","r","s","t","u","v","w","x","y","z">>
UpperAZ == <<"A","B","C","D","E","F","G","H","I","J","K","L","M",
             "N","O","P","Q","R","S","T","U","V","W","X","Y","Z">>
DigitChars == <<"0","1","2","3","4","5","6","7","8","9">>

IsLower(c) == \E i \in 1..26 : LowerAZ[i] = c
IsUpper(c) == \E i \in 1..26 : UpperAZ[i] = c
IsAlpha(c) == IsLower(c) \/ IsUpper(c)
IsDigit(c) == \E i \in 1..10 : DigitChars[i] = c
IsSpace(c) == c = " "
DigitVal(c) == (CHOOSE i \in 1..10 : DigitChars[i] = c) - 1

UpperChar(c) == IF IsLower(c) THEN UpperAZ[CHOOSE i \in 1..26 : LowerAZ[i] = c] ELSE c
\* s.upper()
UpperStr(s) == [i \in 1..Len(s) |-> UpperChar(s[i])]

RECURSIVE LStrip(_)
LStrip(s) == IF s # <<>> /\ IsSpace(Head(s)) THEN LStrip(Tail(s)) ELSE s
RECURSIVE RStrip(_)
RStrip(s) == IF s # <<>> /\ IsSpace(s[Len(s)]) THEN RStrip(SubSeq(s, 1, Len(s) - 1)) ELSE s
\* s.strip()
Strip(s) == RStrip(LStrip(s))

\* The end of the run of non-space characters of s that starts at i.
RECURSIVE TokenEnd(_, _)
TokenEnd(s, i) == IF i <= Len(s) /\ ~IsSpace(s[i]) THEN TokenEnd(s, i + 1) ELSE i - 1
\* The end of the run of digits of s that starts at i.
RECURSIVE DigitEnd(_, _)
DigitEnd(s, i) == IF i <= Len(s) /\ IsDigit(s[i]) THEN DigitEnd(s, i + 1) ELSE i - 1

\* s.split(): the whitespace-delimited tokens of s.
RECURSIVE Split(_)
SplitAt(t, k) == <<SubSeq(t, 1, k)>> \o Split(SubSeq(t, k + 1, Len(t)))
SplitStripped(t) == IF t = <<>> THEN <<>> ELSE SplitAt(t, TokenEnd(t, 1))
Split(s) == SplitStripped(LStrip(s))

RECURSIVE NatToStr(_)
NatToStr(n) ==
    IF n < 10 THEN <<DigitChars[n + 1]>>
    ELSE NatToStr(n \div 10) \o <<DigitChars[(n % 10) + 1]>>
\* str(i) of an int
IntToStr(i) == (IF i < 0 THEN <<"-">> ELSE <<>>) \o NatToStr(IF i < 0 THEN -i ELSE i)

\* The fraction digits of a float's text: at least one, no trailing zero.
FracDigits(frac) ==
    IF frac % 10 = 0 THEN <<DigitChars[(frac \div 10) + 1]>>
    ELSE <<DigitChars[(frac \div 10) + 1], DigitChars[(frac % 10) + 1]>>
\* str(x) of a float held in hundredths: 1310 is "13.1", 200 is "2.0", 63 is "0.63".
FloatMagToStr(a) == NatToStr(a \div 100) \o <<".">> \o FracDigits(a % 100)
FloatToStr(h) == (IF h < 0 THEN <<"-">> ELSE <<>>) \o FloatMagToStr(IF h < 0 THEN -h ELSE h)

\* str(v).  The text of a dictionary is not modelled: it is one opaque token.
ToStr(v) ==
    CASE v.t = "str" -> v.s
      [] v.t = "int" -> IntToStr(v.n)
      [] v.t = "float" -> FloatToStr(v.n)
      [] v.t = "bool" -> IF v.n = 1 THEN <<"T","r","u","e">> ELSE <<"F","a","l","s","e">>
      [] v.t = "null" -> <<"N","o","n","e">>
      [] OTHER -> <<"{", "}">>

RECURSIVE DigitsVal(_)
DigitsVal(s) == IF s = <<>> THEN 0 ELSE DigitsVal(SubSeq(s, 1, Len(s) - 1)) * 10 + DigitVal(s[Len(s)])
AllDigits(s) == \A i \in 1..Len(s) : IsDigit(s[i])

\* float(s) of a string: optional sign, digits, optional fraction (two places kept).
\* ok = FALSE stands for ValueError.
NotANumber == [ok |-> FALSE, n |-> 0]
ParseDone(neg, ip, fp) ==
    IF Len(ip) + Len(fp) = 0 THEN NotANumber
    ELSE [ok |-> TRUE, n |-> (IF neg THEN -1 ELSE 1) * DigitsVal(ip \o SubSeq(fp \o <<"0", "0">>, 1, 2))]
ParseFrac(neg, ip, rest) ==
    IF rest = <<>> THEN ParseDone(neg, ip, <<>>)
    ELSE IF Head(rest) = "." /\ AllDigits(Tail(rest)) THEN ParseDone(neg, ip, Tail(rest))
    ELSE NotANumber
ParseParts(neg, u, k) == ParseFrac(neg, SubSeq(u, 1, k), SubSeq(u, k + 1, Len(u)))
ParseUnsigned(neg, u) == ParseParts(neg, u, DigitEnd(u, 1))
ParseSigned(t) ==
    ParseUnsigned(t # <<>> /\ Head(t) = "-",
                  IF t # <<>> /\ Head(t) \in {"-", "+"} THEN Tail(t) ELSE t)
ParseFloat(s) == ParseSigned(Strip(s))

\* float(v), in hundredths; ok = FALSE stands for TypeError / ValueError.
ToFloat(v) ==
    CASE v.t = "int" -> [ok |-> TRUE, n |-> v.n * 100]
      [] v.t = "bool" -> [ok |-> TRUE, n |-> v.n * 100]
      [] v.t = "float" -> [ok |-> TRUE, n |-> v.n]
      [] v.t = "str" -> ParseFloat(v.s)
      [] OTHER -> NotANumber

\* int(x) of a float: truncation towards zero.
Trunc(h) == IF h < 0 THEN -((-h) \div 100) ELSE h \div 100
TruncResult(f) == [ok |-> f.ok, n |-> Trunc(f.n)]
\* int(float(v))
IntOfFloat(v) == TruncResult(ToFloat(v))

(***************************************************************************)
(* Dictionaries.                                                           *)
(***************************************************************************)
\* Every key the handlers read from a payload or from a nested dictionary.
Keys == {"type", "ref_id", "ticker", "tf", "time", "state", "payload", "data",
         "card", "msg", "cycle", "regime", "cycle_regime", "vol", "volatility",
         "vix_state", "card2_state", "bias", "signal", "colour", "color",
         "card2_text", "text", "message", "flow", "count", "maturity",
         "cycle_maturity", "sahm", "sahm_value", "sahm_trigger", "spx_dd",
         "spxDrawdown", "dd", "drawdown", "level", "value", "name", "symbol",
         "card1", "card3", "rot_dir", "card2", "secret", "_server_ts",
         "vix", "gvz", "buy", "sell", "vold", "war", "active", "reason"}

\* The dictionary with the items of record r.
Dict(r) == [k \in Keys |-> IF k \in DOMAIN r THEN r[k] ELSE Absent]
EmptyDict == [k \in Keys |-> Absent]
\* d[k] = v
Set(d, k, v) == [d EXCEPT ![k] = v]

\* A dictionary keyed by values computed at run time (ref ids, tickers).
EmptyMap == [k \in {} |-> EmptyDict]
Put(m, k, v) == [j \in (DOMAIN m) \cup {k} |-> IF j = k THEN v ELSE m[j]]
Lookup(m, k, default) == IF k \in DOMAIN m THEN m[k] ELSE default

\* isinstance(v, dict)
IsDict(v) == v.t = "obj"
\* isinstance(v, int): bool is a subclass of int.
IsInt(v) == v.t \in {"int", "bool"}
\* isinstance(v, (int, float))
IsNumber(v) == v.t \in {"int", "bool", "float"}
\* Hashable values can be dictionary keys; a dict cannot.
Hashable(v) == v.t # "obj"

(***************************************************************************)
(* STATE (app.py lines 29-64).  The keys the code adds later ("regime",    *)
(* "spx_dd", "card1", "card3", "card2_state", "card2_text", "stocks") are  *)
(* Absent at first.  A sub-record of secret is a slot: v is the value      *)
(* when it is not a dict, and DictTag with the items beside it when it is. *)
(***************************************************************************)
DictTag == [t |-> "dict", n |-> 0, s |-> <<>>]
Slot(v) == [v |-> v, name |-> Absent, symbol |-> Absent, state |-> Absent,
            level |-> Absent, value |-> Absent, active |-> Absent, reason |-> Absent]
SlotItems == {"name", "symbol", "state", "level", "value", "active", "reason"}
\* The slot holding dictionary d (only the items the code ever reads are kept).
SlotOfDict(d) == [k \in SlotItems \cup {"v"} |-> IF k = "v" THEN DictTag ELSE d[k]]
SlotIsDict(sl) == sl.v = DictTag
\* bool(slot): an empty dict, None, "", 0 are falsy.
SlotTruthy(sl) == IF SlotIsDict(sl) THEN \E k \in SlotItems : sl[k] # Absent ELSE Truthy(sl.v)
\* slot.get(k) of a dict slot
SlotGet(sl, k) == IF sl[k] = Absent THEN PyNone ELSE sl[k]

SecretKeys == {"vix", "gvz", "buy", "sell", "vold", "war"}

InitState ==
    [cycle |-> PyNone, vol |-> PyNone, flow |-> PyNone, count |-> PyNone, sahm |-> PyNone,
     regime |-> Absent, spx_dd |-> Absent, card1 |-> Absent, card3 |-> Absent,
     card2_state |-> Absent, card2_text |-> Absent,
     card2 |-> [state |-> PyNone, text |-> PyNone, time |-> PyNone, tf |-> PyNone, ref_id |-> PyNone],
     monitor |-> [last_by_ref |-> EmptyMap, last_by_ticker |-> EmptyMap, last_hello |-> EmptyMap],
     nodes |-> [by_ref |-> EmptyMap],
     stocks |-> [present |-> FALSE, last_scada_by_ref |-> EmptyMap, last_watch_by_ref |-> EmptyMap],
     secret |-> [k \in SecretKeys |-> Slot(PyNone)],
     server_ts |-> PyNone]

(***************************************************************************)
(* Helpers (app.py lines 226-252).                                         *)
(***************************************************************************)
\* A plausible slip: the clamp returns its argument.
ClampIntNoClamp(x, lo, hi) == x

\* _clamp_int: max(lo, min(hi, x))
ClampInt(x, lo, hi) ==
    LET m == IF hi < x THEN hi ELSE x
    IN IF lo > m THEN lo ELSE m

\* _safe_int: None on None and on any conversion error.
IntOrNone(r) == IF r.ok THEN PyInt(r.n) ELSE PyNone
SafeInt(v) == IF v.t \in {"null", "absent"} THEN PyNone ELSE IntOrNone(IntOfFloat(v))

\* _safe_float
FloatOrNone(r) == IF r.ok THEN PyFloat(r.n) ELSE PyNone
SafeFloat(v) == IF v.t \in {"null", "absent"} THEN PyNone ELSE FloatOrNone(ToFloat(v))

\* _normalise_str: the stripped text, None when it is empty.
TextOrNone(t) == IF t = <<>> THEN PyNone ELSE PyStr(t)
NormaliseStr(v) == IF v.t \in {"null", "absent"} THEN PyNone ELSE TextOrNone(Strip(ToStr(v)))

\* x in (None, "", "NA", "na")
IsBlank(v) == v.t = "null" \/ (v.t = "str" /\ v.s \in {<<>>, <<"N", "A">>, <<"n", "a">>})

(***************************************************************************)
(* _recompute_war_from_secret (app.py lines 368-390).                      *)
(***************************************************************************)
VixMax == 4
GvzLow == 3
GvzHigh == 8

InstitutionalX == <<"I","n","s","t","i","t","u","t","i","o","n","a","l"," ","X",":"," ">>
InstitutionalY == <<"I","n","s","t","i","t","u","t","i","o","n","a","l"," ","Y",":"," ">>

\* ", ".join(parts)
RECURSIVE Join(_)
Join(parts) ==
    IF parts = <<>> THEN <<>>
    ELSE IF Len(parts) = 1 THEN parts[1]
    ELSE parts[1] \o <<",", " ">> \o Join(Tail(parts))

\* (STATE["secret"].get(k) or {}).get("level")
LevelOf(sl) == IF SlotTruthy(sl) THEN SlotGet(sl, "level") ELSE PyNone
\* ... raises AttributeError when the slot holds a truthy value that is no dict.
LevelRaises(sl) == SlotTruthy(sl) /\ ~SlotIsDict(sl)

\* A plausible slip: the X threshold is tested with < instead of <=.
VixTriggersStrict(vixL) == IsInt(vixL) /\ vixL.n < VixMax

VixTriggers(vixL) == IsInt(vixL) /\ vixL.n <= VixMax
GvzTriggers(gvzL) == IsInt(gvzL) /\ (gvzL.n <= GvzLow \/ gvzL.n >= GvzHigh)

\* The war record: active = bool(reasons), reason = ", ".join(reasons).
WarRecord(reasons) ==
    [Slot(DictTag) EXCEPT !.active = PyBool(reasons # <<>>), !.reason = PyStr(Join(reasons))]

\* The war record for the two levels.
WarOf(vixL, gvzL) ==
    WarRecord((IF VixTriggers(vixL) THEN <<InstitutionalX \o ToStr(vixL)>> ELSE <<>>)
              \o (IF GvzTriggers(gvzL) THEN <<InstitutionalY \o ToStr(gvzL)>> ELSE <<>>))

RecomputeRaises(S) == LevelRaises(S.secret["vix"]) \/ LevelRaises(S.secret["gvz"])

\* _recompute_war_from_secret: [S, exc]; nothing is written when it raises.
RecomputeWar(S) ==
    IF RecomputeRaises(S) THEN [S |-> S, exc |-> TRUE]
    ELSE [S |-> [S EXCEPT !.secret["war"] =
                    WarOf(LevelOf(S.secret["vix"]), LevelOf(S.secret["gvz"]))],
          exc |-> FALSE]

(***************************************************************************)
(* _extract_meta, _update_monitor_lane, _store_node_payload                *)
(* (app.py lines 86-136, 150-194).                                         *)
(***************************************************************************)
sNA == <<"N","A">>
sHELLO == <<"H","E","L","L","O">>
sOPEN == <<"O","P","E","N">>
sCLOSE == <<"C","L","O","S","E">>
sSCADA == <<"S","C","A","D","A","_","S","T","A","T","U","S">>
sWATCH == <<"W","A","T","C","H">>

StartsWith(s, pre) == Len(s) >= Len(pre) /\ SubSeq(s, 1, Len(pre)) = pre
\* sub in s
Contains(s, sub) == \E i \in 1..(Len(s) - Len(sub) + 1) : SubSeq(s, i, i + Len(sub) - 1) = sub
\* str.isdigit()
IsDigitStr(s) == s # <<>> /\ AllDigits(s)

\* int(data["ref_id"]) if str(data.get("ref_id", "")).isdigit() else None
MetaRef(t) == IF IsDigitStr(t) THEN PyInt(DigitsVal(t)) ELSE PyNone

ExtractMeta(data) ==
    [type |-> PyStr(ToStr(Or(Get(data, "type"), PyStr(sNA)))),
     ref_id |-> IF Has(data, "ref_id") THEN MetaRef(ToStr(data["ref_id"])) ELSE PyNone,
     ticker |-> Get(data, "ticker"),
     tf |-> Get(data, "tf"),
     time |-> Get(data, "time")]

NoHello == [open |-> Absent, close |-> Absent, test |-> Absent, ref_id |-> Absent]

\* Lines 114-119
MonitorByRef(m, meta, now) ==
    IF meta.ref_id # PyNone
    THEN [m EXCEPT !.last_by_ref =
             Put(@, ToStr(meta.ref_id), [ts |-> PyInt(now), type |-> meta.type, ticker |-> meta.ticker])]
    ELSE m

\* Lines 121-126
MonitorByTicker(m, meta, now) ==
    IF Truthy(meta.ticker)
    THEN [m EXCEPT !.last_by_ticker =
             Put(@, meta.ticker, [ts |-> PyInt(now), type |-> meta.type, ref_id |-> meta.ref_id])]
    ELSE m

\* Lines 129-136
HelloRecord(rec, meta, now) ==
    [rec EXCEPT !.open = IF Contains(meta.type.s, sOPEN) THEN PyInt(now) ELSE @,
                !.close = IF ~Contains(meta.type.s, sOPEN) /\ Contains(meta.type.s, sCLOSE)
                          THEN PyInt(now) ELSE @,
                !.test = IF ~Contains(meta.type.s, sOPEN) /\ ~Contains(meta.type.s, sCLOSE)
                         THEN PyInt(now) ELSE @,
                !.ref_id = meta.ref_id]

\* Lines 128-137
MonitorHello(m, meta, now) ==
    IF StartsWith(meta.type.s, sHELLO)
    THEN [m EXCEPT !.last_hello =
             Put(@, meta.ticker, HelloRecord(Lookup(@, meta.ticker, NoHello), meta, now))]
    ELSE m

\* A ticker that is a dict cannot be a key: TypeError.
MonitorRaises(meta) ==
    (Truthy(meta.ticker) \/ StartsWith(meta.type.s, sHELLO)) /\ ~Hashable(meta.ticker)

\* _update_monitor_lane: [S, exc].  When it raises, last_by_ref has been written.
UpdateMonitorLane(S, meta, now) ==
    IF MonitorRaises(meta)
    THEN [S |-> [S EXCEPT !.monitor = MonitorByRef(@, meta, now)], exc |-> TRUE]
    ELSE [S |-> [S EXCEPT !.monitor =
                    MonitorHello(MonitorByTicker(MonitorByRef(@, meta, now), meta, now), meta, now)],
          exc |-> FALSE]

NoNode == [last_scada_status |-> EmptyDict, last_watch |-> EmptyDict,
           ts_scada_status |-> Absent, ts_watch |-> Absent,
           ticker |-> Absent, ref_id |-> Absent]

\* Lines 175-188: the record of one ref_id.
NodeRecord(rec, out, now) ==
    [rec EXCEPT !.last_scada_status = IF out["type"].s = sSCADA THEN out ELSE @,
                !.ts_scada_status = IF out["type"].s = sSCADA THEN PyInt(now) ELSE @,
                !.last_watch = IF out["type"].s = sSCADA THEN @ ELSE out,
                !.ts_watch = IF out["type"].s = sSCADA THEN @ ELSE PyInt(now),
                !.ticker = IF Truthy(Get(out, "ticker"))
                           THEN PyStr(UpperStr(ToStr(out["ticker"]))) ELSE @,
                !.ref_id = out["ref_id"]]

\* _store_node_payload for a SCADA_STATUS / WATCH message whose ref_id is an
\* int already (the only call, app.py line 858); it never raises.
StoreNodeAt(S, key, out, now) ==
    [S EXCEPT !.nodes.by_ref = Put(@, key, NodeRecord(Lookup(@, key, NoNode), out, now))]
StoreNodePayload(S, out, now) == StoreNodeAt(S, IntToStr(out["ref_id"].n), out, now)

(***************************************************************************)
(* _parse_typed_payload (app.py lines 443-565).                            *)
(***************************************************************************)
Card1Types == {<<"C","A","R","D","1">>, <<"M","A","C","R","O","_","C","A","R","D","1">>, <<"R","E","G","I","M","E","_","V","O","L">>}
Card2Types == {<<"C","A","R","D","2">>, <<"M","A","C","R","O","_","C","A","R","D","2">>, <<"C","A","P","I","T","A","L","_","R","O","T","A","T","I","O","N">>}
Card3Types == {<<"C","A","R","D","3">>, <<"M","A","C","R","O","_","C","A","R","D","3">>, <<"C","Y","C","L","E","_","C","L","O","C","K">>}
Card4Types == {<<"C","A","R","D","4">>, <<"M","A","C","R","O","_","C","A","R","D","4">>, <<"R","E","C","E","S","S","I","O","N","_","P","U","L","S","E">>}

CountLo == 0
CountHi == 100

\* pick(*keys): the value of the first key that is present and not blank, else None.
RECURSIVE Pick(_, _)
Pick(data, ks) ==
    IF ks = <<>> THEN PyNone
    ELSE IF Has(data, Head(ks)) /\ ~IsBlank(data[Head(ks)]) THEN data[Head(ks)]
    ELSE Pick(data, Tail(ks))

\* str(v).strip().upper()
UpperText(v) == PyStr(UpperStr(Strip(ToStr(v))))

\* STATE["cycle"] = str(cycle).strip().upper(), when a cycle was picked
StoreCycleText(S, v) == IF v # PyNone THEN [S EXCEPT !.cycle = UpperText(v)] ELSE S
StoreVolText(S, v) == IF v # PyNone THEN [S EXCEPT !.vol = UpperText(v)] ELSE S

\* A plausible slip: the count is added to the stored one instead of replacing it.
StoreCountIntAdd(S, c) ==
    IF c # PyNone
    THEN [S EXCEPT !.count = PyInt(ClampInt((IF IsInt(@) THEN @.n ELSE 0) + c.n, CountLo, CountHi))]
    ELSE S

\* STATE["count"] = _clamp_int(c, 0, 100), when c is not None
StoreCountInt(S, c) ==
    IF c # PyNone THEN [S EXCEPT !.count = PyInt(ClampInt(c.n, CountLo, CountHi))] ELSE S
\* c = _safe_int(count)
StoreCount(S, v) == StoreCountInt(S, SafeInt(v))

\* The optional metadata passthrough into STATE["card2"].
Card2Meta(c2, d) ==
    [k \in DOMAIN c2 |-> IF k \in {"time", "tf", "ref_id"} /\ Has(d, k) /\ ~IsBlank(Get(d, k))
                         THEN d[k] ELSE c2[k]]

TypedCard1(S, data) ==
    StoreVolText(StoreCycleText(S, Pick(data, <<"cycle", "regime", "cycle_regime">>)),
                 Pick(data, <<"vol", "volatility", "vix_state">>))

\* Lines 493-496 and 512-513: the state, also mirrored into STATE["card2"].
StoreCard2State(S, st) ==
    IF st # PyNone THEN [S EXCEPT !.card2_state = UpperText(st), !.card2.state = UpperText(st)] ELSE S
\* Lines 499-506 and 514-515: the text; flow mirrors it when it is not empty.
StoreCard2Norm(S, tx) ==
    [S EXCEPT !.card2_text = tx, !.card2.text = tx, !.flow = IF tx.s # <<>> THEN tx ELSE @]
StoreCard2Text(S, tx) == IF tx # PyNone THEN StoreCard2Norm(S, PyStr(Strip(ToStr(tx)))) ELSE S
StoreCard2Meta(S, data) == [S EXCEPT !.card2 = Card2Meta(@, data)]

TypedCard2(S, data) ==
    StoreCard2Meta(
        StoreCard2Text(
            StoreCard2State(S, Pick(data, <<"card2_state", "state", "bias", "signal", "colour", "color">>)),
            Pick(data, <<"card2_text", "text", "msg", "message", "flow">>)),
        data)

TypedCard3(S, data) ==
    StoreCycleText(StoreCount(S, Pick(data, <<"count", "maturity", "cycle_maturity">>)),
                   Pick(data, <<"cycle", "regime", "cycle_regime">>))

StoreSahm(S, f) == IF f # PyNone THEN [S EXCEPT !.sahm = f] ELSE S
StoreDd(S, f) == IF f # PyNone THEN [S EXCEPT !.spx_dd = f] ELSE S

TypedCard4(S, data) ==
    StoreDd(StoreSahm(S, SafeFloat(Pick(data, <<"sahm", "sahm_value", "sahm_trigger">>))),
            SafeFloat(Pick(data, <<"spx_dd", "spxDrawdown", "dd", "drawdown">>)))

\* The handler of a type; any other type (VIX, GVZ, MACRO, ...) is ignored.
TypedAs(S, data, typ) ==
    IF typ \in Card1Types THEN TypedCard1(S, data)
    ELSE IF typ \in Card2Types THEN TypedCard2(S, data)
    ELSE IF typ \in Card3Types THEN TypedCard3(S, data)
    ELSE IF typ \in Card4Types THEN TypedCard4(S, data)
    ELSE S

\* t = _normalise_str(data.get("type")); typ = t.strip().upper()
TypedNamed(S, data, t) == IF t = PyNone THEN S ELSE TypedAs(S, data, UpperStr(Strip(t.s)))

\* _parse_typed_payload
ParseTypedPayload(S, data) == TypedNamed(S, data, NormaliseStr(Get(data, "type")))

(***************************************************************************)
(* _parse_card_payload (app.py lines 570-637).  The regular expressions    *)
(* are matched on the character sequences; " " is the only whitespace.     *)
(***************************************************************************)
\* The result of re.search: whether it matched, and group(1).
NotFound == [found |-> FALSE, text |-> <<>>]
Found(t) == [found |-> TRUE, text |-> t]
\* The first match of a sequence of attempts (the leftmost one).
RECURSIVE FirstFound(_)
FirstFound(ms) ==
    IF ms = <<>> THEN NotFound
    ELSE IF Head(ms).found THEN Head(ms)
    ELSE FirstFound(Tail(ms))

\* [handler result] a state written without an exception
Ok(S) == [S |-> S, exc |-> FALSE]

\* The end of the run of [A-Za-z ] characters of s that starts at i.
RECURSIVE NameEnd(_, _)
NameEnd(s, i) ==
    IF i <= Len(s) /\ (IsAlpha(s[i]) \/ IsSpace(s[i])) THEN NameEnd(s, i + 1) ELSE i - 1
\* The first position at or after i that holds no space.
RECURSIVE SkipSpaces(_, _)
SkipSpaces(s, i) == IF i <= Len(s) /\ IsSpace(s[i]) THEN SkipSpaces(s, i + 1) ELSE i

\* ":" at position j of s: the position after it, else 0.
ColonAfter(s, j) == IF j <= Len(s) /\ s[j] = ":" THEN j + 1 ELSE 0
\* label, ignoring case, at position i of s, followed by \s*: -- the position after the colon, else 0.
AfterLabel(s, i, label) ==
    IF i + Len(label) - 1 <= Len(s) /\ UpperStr(SubSeq(s, i, i + Len(label) - 1)) = label
    THEN ColonAfter(s, SkipSpaces(s, i + Len(label)))
    ELSE 0

\* \s*([A-Za-z ]+) from position k: \s* and the group draw on the same run, so
\* group(1).strip() is the stripped run of [A-Za-z ] at k, which must not be empty.
LabelRun(s, k) ==
    IF k > 0 /\ NameEnd(s, k) >= k THEN Found(Strip(SubSeq(s, k, NameEnd(s, k)))) ELSE NotFound

\* (?:L1|L2)\s*:\s*([A-Za-z ]+) matched at position i, ignoring case.
LabelledAt(s, i, labels) ==
    FirstFound([n \in 1..Len(labels) |-> LabelRun(s, AfterLabel(s, i, labels[n]))])

\* re.search(r"(?:L1|L2)\s*:\s*([A-Za-z ]+)", s, re.I)
SearchLabelled(s, labels) == FirstFound([i \in 1..Len(s) |-> LabelledAt(s, i, labels)])

CycleLabels == <<<<"C","Y","C","L","E">>, <<"R","E","G","I","M","E">>>>
VolLabels == <<<<"V","O","L">>, <<"V","O","L","A","T","I","L","I","T","Y">>>>
SahmLabels == <<<<"S","A","H","M">>>>

\* The end of an optional fraction (\.\d+)? after the digits ending at d.
FracEnd(s, d) ==
    IF d + 1 <= Len(s) /\ s[d + 1] = "." /\ DigitEnd(s, d + 2) >= d + 2
    THEN DigitEnd(s, d + 2) ELSE d
\* \s*% after position e
ClosesAt(s, j) == j <= Len(s) /\ s[j] = "%"
Closes(s, e) == ClosesAt(s, SkipSpaces(s, e + 1))

\* (\d+(\.\d+)?)\s*% at position i, the digits ending at d and the fraction at f.
PercentEnds(s, i, d, f) ==
    IF Closes(s, f) THEN Found(SubSeq(s, i, f))
    ELSE IF Closes(s, d) THEN Found(SubSeq(s, i, d))
    ELSE NotFound
PercentFrom(s, i, d) == IF d < i THEN NotFound ELSE PercentEnds(s, i, d, FracEnd(s, d))
PercentAt(s, i) == PercentFrom(s, i, DigitEnd(s, i))

\* re.search(r"(\d+(\.\d+)?)\s*%", s)
SearchPercent(s) == FirstFound([i \in 1..Len(s) |-> PercentAt(s, i)])

\* ([0-9]*\.?[0-9]+) at position k, ending at f.
SahmNumber(s, k, f) == IF f >= k THEN Found(SubSeq(s, k, f)) ELSE NotFound
SahmFrom(s, k) == SahmNumber(s, k, FracEnd(s, DigitEnd(s, k)))
SahmAfter(s, k0) == IF k0 > 0 THEN SahmFrom(s, SkipSpaces(s, k0)) ELSE NotFound
SahmAt(s, i) == SahmAfter(s, AfterLabel(s, i, SahmLabels[1]))

\* re.search(r"SAHM\s*:\s*([0-9]*\.?[0-9]+)", s, re.I)
SearchSahm(s) == FirstFound([i \in 1..Len(s) |-> SahmAt(s, i)])

\* Lines 578-584: a labelled value found in msg is stored.
Card1Labels(S, mCycle, mVol) ==
    [S EXCEPT !.cycle = IF mCycle.found THEN PyStr(UpperStr(mCycle.text)) ELSE @,
              !.vol = IF mVol.found THEN PyStr(UpperStr(mVol.text)) ELSE @]

\* Lines 589-590: .upper() on a stored value that is a number raises
\* AttributeError; the cycle is written before the vol is computed.
Card1Fill(S, cyc, vl) ==
    IF cyc.t # "str" THEN [S |-> S, exc |-> TRUE]
    ELSE IF vl.t # "str" THEN [S |-> [S EXCEPT !.cycle = PyStr(UpperStr(cyc.s))], exc |-> TRUE]
    ELSE Ok([S EXCEPT !.cycle = PyStr(UpperStr(cyc.s)), !.vol = PyStr(UpperStr(vl.s))])

\* Lines 586-590: the first and the last token fill what is still empty.
Card1Fallback(S, parts) ==
    IF (Truthy(S.cycle) /\ Truthy(S.vol)) \/ Len(parts) < 2 THEN Ok(S)
    ELSE Card1Fill(S, Or(S.cycle, PyStr(parts[1])), Or(S.vol, PyStr(parts[Len(parts)])))

\* Card 1 (lines 577-590): [S, exc]
Card1(S, msg) ==
    Card1Fallback(Card1Labels(S, SearchLabelled(msg, CycleLabels), SearchLabelled(msg, VolLabels)),
                  Split(msg))

\* Lines 596-598
Card3Count(S, m) ==
    IF m.found
    THEN [S EXCEPT !.count = PyInt(ClampInt(Trunc(ParseFloat(m.text).n), CountLo, CountHi))]
    ELSE S
\* Lines 600-602
Card3Regime(S, reg) == IF Truthy(reg) THEN [S EXCEPT !.cycle = PyStr(UpperStr(reg.s))] ELSE S

\* Card 3 (lines 595-602)
Card3(S, data, msg) ==
    Card3Regime(Card3Count(S, SearchPercent(msg)),
                Or(NormaliseStr(Get(data, "regime")), NormaliseStr(Get(data, "cycle"))))

\* Card 4 (lines 604-607)
Card4Sahm(S, m) == IF m.found THEN [S EXCEPT !.sahm = PyFloat(ParseFloat(m.text).n)] ELSE S
Card4(S, msg) == Card4Sahm(S, SearchSahm(msg))

\* The instrument pack of cards 5-9 (lines 610-624); a level or value that is
\* absent or blank is None.
PackOf(data) ==
    [Slot(DictTag) EXCEPT
        !.name = PyStr(UpperStr(Or(NormaliseStr(Get(data, "name")), PyStr(<<>>)).s)),
        !.symbol = Or(NormaliseStr(Get(data, "symbol")), PyStr(<<>>)),
        !.state = Or(NormaliseStr(Get(data, "state")), PyStr(<<>>)),
        !.level = IF ~IsBlank(Get(data, "level")) THEN SafeInt(Get(data, "level")) ELSE PyNone,
        !.value = IF ~IsBlank(Get(data, "value")) THEN SafeFloat(Get(data, "value")) ELSE PyNone]

\* Card 9 keeps the level and the state only.
VoldOf(pack) == [Slot(DictTag) EXCEPT !.level = pack.level, !.state = pack.state]

\* Lines 626-635: the sub-record a card number writes.
CardSlot(n) == CASE n = 5 -> "vix" [] n = 6 -> "gvz" [] n = 7 -> "buy" [] n = 8 -> "sell" [] OTHER -> "vold"
StorePack(S, n, pack) == [S EXCEPT !.secret[CardSlot(n)] = IF n = 9 THEN VoldOf(pack) ELSE pack]

\* Cards 5-9 (lines 609-637): store the pack, then recompute the alert.
CardInstrument(S, data, n) == RecomputeWar(StorePack(S, n, PackOf(data)))

\* Lines 577-637: the branch of card number n.
CardBranch(S, data, n, msg) ==
    IF n = 1 /\ msg # <<>> THEN Card1(S, msg)
    ELSE IF n = 2 /\ msg # <<>> THEN Ok([S EXCEPT !.flow = PyStr(msg)])
    ELSE IF n = 3 THEN Ok(Card3(S, data, msg))
    ELSE IF n = 4 THEN Ok(Card4(S, msg))
    ELSE IF n \in 5..9 THEN CardInstrument(S, data, n)
    ELSE Ok(S)

CardNumbered(S, data, cardN, msg) == IF cardN = PyNone THEN Ok(S) ELSE CardBranch(S, data, cardN.n, msg)

\* _parse_card_payload: [S, exc]
ParseCardPayload(S, data) ==
    CardNumbered(S, data, SafeInt(Get(data, "card")), Or(NormaliseStr(Get(data, "msg")), PyStr(<<>>)).s)

(***************************************************************************)
(* Nested dictionaries of the payloads.  PyDict(i) refers to Heap[i].      *)
(***************************************************************************)
sBad == <<"b","a","d">>
sGreen == <<"g","r","e","e","n">>
sRiskOn == <<"R","i","s","k"," ","O","n">>
sHot == <<"h","o","t">>

Heap ==
    << Dict([level |-> PyInt(2), state |-> PyStr(sHot)]),                  \* 1: a pack
       Dict([vix |-> PyDict(1)]),                                          \* 2: secret block
       Dict([vix |-> PyDict(1), gvz |-> PyStr(sBad)]),                     \* 3: secret block, gvz no dict
       Dict([active |-> PyBool(TRUE), reason |-> PyStr(sHot)]),            \* 4: a war record
       Dict([war |-> PyDict(4)]),                                          \* 5: secret block setting war
       Dict([state |-> PyStr(sGreen), text |-> PyStr(sRiskOn)]),           \* 6: a card2 record
       Dict([card |-> PyInt(6), level |-> PyInt(3)]),                      \* 7: an enveloped payload
       Dict([card |-> PyInt(5), level |-> PyInt(4)]),                      \* 8: another one
       Dict([payload |-> PyDict(7), card |-> PyInt(5), level |-> PyInt(4)]) >> \* 9: one holding an envelope

\* The dictionary a value refers to.
Deref(v) == Heap[v.n]

\* The value of a secret sub-record taken from a payload.
SlotOfValue(v) == IF IsDict(v) THEN SlotOfDict(Deref(v)) ELSE Slot(v)

(***************************************************************************)
(* Envelope unwrapping (app.py lines 720-725, 795-800).                    *)
(***************************************************************************)
Unwrap(data) ==
    IF IsDict(Get(data, "state")) THEN Deref(data["state"])
    ELSE IF IsDict(Get(data, "payload")) THEN Deref(data["payload"])
    ELSE IF IsDict(Get(data, "data")) THEN Deref(data["data"])
    ELSE data

(***************************************************************************)
(* /webhook, the section under STATE_LOCK (app.py lines 805-996).  Its     *)
(* result is [S, exc, stock, out]: the state, whether an exception left    *)
(* the section, whether the stock lane answered, and the stock message.    *)
(***************************************************************************)
CycleLo == 0
CycleHi == 120
StockTypes == {sSCADA, sWATCH}

\* typ = str(data.get("type") or "").strip().upper()
TypOf(data) == UpperStr(Strip(ToStr(Or(Get(data, "type"), PyStr(<<>>)))))
IsStock(data) == TypOf(data) \in StockTypes

\* Lines 807-825: the timestamp, and the stocks container made on first use.
WebhookStamp(S, now) == [S EXCEPT !.server_ts = PyInt(now), !.stocks.present = TRUE]

\* Lines 842-843
StockTicker(o) ==
    IF Get(o, "ticker") # PyNone THEN Set(o, "ticker", PyStr(UpperStr(ToStr(o["ticker"])))) ELSE o
\* Lines 838-846: the message stored and emitted as stock_update.
StockOut(data, ref, now) ==
    Set(StockTicker(Set(Set(data, "type", PyStr(TypOf(data))), "ref_id", ref)), "_server_ts", PyInt(now))

\* Lines 849-852
StockStore(S, key, out) ==
    IF out["type"].s = sSCADA
    THEN [S EXCEPT !.stocks.last_scada_by_ref = Put(@, key, out)]
    ELSE [S EXCEPT !.stocks.last_watch_by_ref = Put(@, key, out)]

StockResult(r, out) == [S |-> r.S, exc |-> r.exc, stock |-> TRUE, out |-> out]

\* Lines 849-862
StockPersist(S, out, now) ==
    StockResult(UpdateMonitorLane(StoreNodePayload(StockStore(S, IntToStr(out["ref_id"].n), out), out, now),
                                  ExtractMeta(out), now),
                out)

\* Lines 835-836: abort(400) when there is no usable ref_id.
StockWithRef(S, data, ref, now) ==
    IF ref = PyNone THEN [S |-> S, exc |-> TRUE, stock |-> TRUE, out |-> EmptyDict]
    ELSE StockPersist(S, StockOut(data, ref, now), now)

\* Lines 827-868, the stock lane; ref_id = int(float(ref_id)), None on any error.
WebhookStock(S, data, now) == StockWithRef(S, data, SafeInt(Get(data, "ref_id")), now)

\* Lines 899-902: the cycle clock is kept in 0..120.
ClampCycle(c) == IF c < CycleLo THEN CycleLo ELSE IF c > CycleHi THEN CycleHi ELSE c

\* Lines 877-918: the texts taken from the payload as they are.
PineText(S, data) ==
    [S EXCEPT
       !.regime = IF Has(data, "regime") THEN PyStr(UpperStr(ToStr(data["regime"]))) ELSE @,
       !.vol = IF Has(data, "vol") THEN PyStr(UpperStr(ToStr(data["vol"]))) ELSE @,
       !.card1 = IF Has(data, "card1") THEN PyStr(ToStr(data["card1"])) ELSE @,
       !.card3 = IF Has(data, "card3") THEN PyStr(ToStr(data["card3"])) ELSE @,
       !.flow = IF Has(data, "rot_dir") THEN PyStr(ToStr(data["rot_dir"])) ELSE @]

\* Lines 896-905: c = int(float(data["cycle"])), dropped when it raises.
PineCycle(S, r) == IF r.ok THEN [S EXCEPT !.cycle = PyInt(ClampCycle(r.n))] ELSE S
\* Lines 921-925: float(data["sahm"]), dropped when it raises.
PineSahm(S, r) == IF r.ok THEN [S EXCEPT !.sahm = PyFloat(r.n)] ELSE S
\* Lines 927-934: the first drawdown alias present, whatever its value.
PineDd(S, data) ==
    [S EXCEPT !.spx_dd = IF Has(data, "spx_dd") THEN data["spx_dd"]
                         ELSE IF Has(data, "spxDrawdown") THEN data["spxDrawdown"]
                         ELSE IF Has(data, "dd") THEN data["dd"]
                         ELSE IF Has(data, "drawdown") THEN data["drawdown"]
                         ELSE @]

\* Lines 874-937: the keys taken from the payload ("Pine authority"), written
\* by STATE.update(pine_allow).
PineAllow(S, data) ==
    PineDd(PineSahm(PineCycle(PineText(S, data),
                              IF Has(data, "cycle") THEN IntOfFloat(data["cycle"]) ELSE NotANumber),
                    IF Has(data, "sahm") THEN ToFloat(data["sahm"]) ELSE NotANumber),
           data)

\* Lines 947-953 and 962-968
Card2State(c2, st) == IF st # PyNone THEN [c2 EXCEPT !.state = UpperText(st)] ELSE c2
Card2Text(c2, tx) == IF tx # PyNone THEN [c2 EXCEPT !.text = PyStr(Strip(ToStr(tx)))] ELSE c2
\* Lines 946-957 and 960-972: state, text and metadata of d into STATE["card2"].
Card2From(c2, d) == Card2Meta(Card2Text(Card2State(c2, Get(d, "state")), Get(d, "text")), d)

\* Lines 942-975: the nested card2 lane.
WebhookCard2(S, data) ==
    IF TypOf(data) = <<"C","A","R","D","2">> THEN [S EXCEPT !.card2 = Card2From(@, data)]
    ELSE IF IsDict(Get(data, "card2")) THEN [S EXCEPT !.card2 = Card2From(@, Deref(data["card2"]))]
    ELSE S

\* Lines 978-982
WebhookTyped(S, data) == IF Has(data, "type") THEN ParseTypedPayload(S, data) ELSE S

\* Lines 984-990: the numbered-card parser is skipped for card 2, and whatever
\* it raises is swallowed (what it wrote before raising stays).
WebhookCardN(S, data, cn) == IF cn = PyNone \/ cn.n # 2 THEN ParseCardPayload(S, data).S ELSE S
WebhookCard(S, data) == IF Has(data, "card") THEN WebhookCardN(S, data, SafeInt(Get(data, "card"))) ELSE S

\* Lines 874-990: the dialects, in the order of the code.
WebhookMacro(S, data) == WebhookCard(WebhookTyped(WebhookCard2(PineAllow(S, data), data), data), data)

\* Lines 992-993: [S, exc]
MonitorAfter(r, meta, now) == IF r.exc THEN r ELSE UpdateMonitorLane(r.S, meta, now)
WebhookFinish(S, meta, now) == MonitorAfter(RecomputeWar(S), meta, now)

MacroResult(r) == [S |-> r.S, exc |-> r.exc, stock |-> FALSE, out |-> EmptyDict]

\* Lines 827-993, after the stamp.
WebhookLane(S, meta, data, now) ==
    IF IsStock(data) THEN WebhookStock(S, data, now)
    ELSE MacroResult(WebhookFinish(WebhookMacro(S, data), meta, now))

\* The whole locked section.
WebhookLocked(S, meta, data, now) == WebhookLane(WebhookStamp(S, now), meta, data, now)

(***************************************************************************)
(* /ingest_macro, the section under STATE_LOCK (app.py lines 730-761).     *)
(* The flat-field merge (_merge_field_payload) is never called, and        *)
(* _apply_sutton_house_normalisation is not defined: its NameError is      *)
(* swallowed.                                                              *)
(***************************************************************************)
IngestStamp(S, now) == [S EXCEPT !.server_ts = PyInt(now)]

\* Lines 734-738
IngestTyped(S, data) == IF Has(data, "type") THEN ParseTypedPayload(S, data) ELSE S
\* Lines 741-742: [S, exc]; the numbered-card parser is not guarded here.
IngestCard(S, data) == IF Has(data, "card") THEN ParseCardPayload(S, data) ELSE Ok(S)

\* Lines 748-751: every key of the secret block is copied as it is.
SecretFrom(sec, d) == [sk \in SecretKeys |-> IF Has(d, sk) THEN SlotOfValue(d[sk]) ELSE sec[sk]]
IngestSecret(S, data) ==
    IF IsDict(Get(data, "secret")) THEN [S EXCEPT !.secret = SecretFrom(@, Deref(data["secret"]))] ELSE S

\* Lines 748-753
IngestAfterCard(r, data) == IF r.exc THEN r ELSE RecomputeWar(IngestSecret(r.S, data))

\* Lines 734-756, after the stamp: [S, exc].
IngestLane(S, data) == IngestAfterCard(IngestCard(IngestTyped(S, data), data), data)

\* The whole locked section: [S, exc].
IngestLocked(S, data, now) == IngestLane(IngestStamp(S, now), data)

(***************************************************************************)
(* The payloads sent to the two ingestion endpoints.                       *)
(***************************************************************************)
pVix6 == Dict([type |-> PyStr(<<"V","I","X">>), value |-> PyFloat(1310), level |-> PyInt(6), state |-> PyStr(<<"N","O","R","M","A","L">>)])
pGvz2 == Dict([type |-> PyStr(<<"G","V","Z">>), value |-> PyFloat(2360), level |-> PyInt(2), state |-> PyStr(<<"E","X","T","R","E","M","E">>)])
pCard5(l) == Dict([card |-> PyInt(5), level |-> PyInt(l), state |-> PyStr(<<"c","a","l","m">>), name |-> PyStr(<<"v","i","x">>)])
pCard5NoLevel == Dict([card |-> PyInt(5), state |-> PyStr(<<"c","a","l","m">>)])
pTyped3Count(n) == Dict([type |-> PyStr(<<"C","A","R","D","3">>), count |-> PyInt(n)])
pTyped3Cycle == Dict([type |-> PyStr(<<"c","y","c","l","e","_","c","l","o","c","k">>), cycle |-> PyInt(130)])
pCycle(n) == Dict([cycle |-> PyInt(n)])
pCard1Silver == Dict([card |-> PyInt(1), msg |-> PyStr(<<"G","O","L","D"," ","E","L","E","V","A","T","E","D">>), cycle |-> PyStr(<<"S","I","L","V","E","R">>)])
pRegimeNull == Dict([regime |-> PyNone, vol |-> PyStr(<<>>)])
pSecretBad == Dict([secret |-> PyDict(3)])
pSecretWar == Dict([secret |-> PyDict(5)])
pScada == Dict([type |-> PyStr(<<"s","c","a","d","a","_","s","t","a","t","u","s">>), ref_id |-> PyStr(<<"1","2">>), ticker |-> PyStr(<<"s","p","y">>)])
pWatchNoRef == Dict([type |-> PyStr(<<"W","A","T","C","H">>), ticker |-> PyStr(<<"s","p","y">>)])
pCard2Typed == Dict([type |-> PyStr(<<"C","A","R","D","2">>), state |-> PyStr(sGreen), text |-> PyStr(sRiskOn)])
pCard3Pct == Dict([card |-> PyInt(3), msg |-> PyStr(<<"M","A","T","U","R","I","T","Y"," ","1","8","7","%">>)])
pEnvelope == Dict([payload |-> PyDict(7)])
pCard2Nested == Dict([card2 |-> PyDict(6)])
\* Envelopes: with fields of its own beside the nested object, with two of the
\* envelope keys, and with an envelope inside the nested object.
pEnvelopeOuter == Dict([payload |-> PyDict(7), ref_id |-> PyStr(<<"1","2">>), ticker |-> PyStr(<<"s","p","y">>)])
pEnvelopeBoth == Dict([data |-> PyDict(8), state |-> PyDict(7)])
pEnvelopeTwice == Dict([data |-> PyDict(9)])
\* Numbered cards 1 and 2.
pCard1Labelled ==
    Dict([card |-> PyInt(1),
          msg |-> PyStr(<<"C","Y","C","L","E",":"," ","g","o","l","d",","," ","V","O","L",":"," ","l","o","w">>)])
pCard1OneLabel ==
    Dict([card |-> PyInt(1),
          msg |-> PyStr(<<"r","e","g","i","m","e",":"," ","b","e","a","r",";"," ","c","a","l","m">>)])
pCard1Single == Dict([card |-> PyInt(1), msg |-> PyStr(<<"G","O","L","D">>)])
pCard2Msg == Dict([card |-> PyInt(2), msg |-> PyStr(sRiskOn)])

Card5Levels == {4}
CountInputs == {-5, 55, 130}
CycleInputs == {60, 130}

Payloads ==
    {pVix6, pGvz2, pCard5NoLevel, pTyped3Cycle, pCard1Silver, pRegimeNull,
     pSecretBad, pSecretWar, pScada, pWatchNoRef, pCard2Typed, pCard3Pct, pEnvelope,
     pCard2Nested}
    \cup {pCard5(l) : l \in Card5Levels}
    \cup {pTyped3Count(n) : n \in CountInputs} \cup {pCycle(n) : n \in CycleInputs}

(***************************************************************************)
(* The state of the service, and the requests handled one at a time.       *)
(***************************************************************************)
\* STATE_LOCK when no request holds it.
NoThread == 0
Threads == 1..MaxThreads

\* _save_state_to_disk: the snapshot file holds the state as saved.
Saved(S) == [exists |-> TRUE, content |-> S]

\* socketio.emit("macro_update", payload)
EmitMacro(pub, payload) == [pub EXCEPT !.n = @ + 1, !.macro = payload]
\* socketio.emit("stock_update", out)
EmitStock(pub, out) == [pub EXCEPT !.nstock = @ + 1, !.stock = out]

\* WEBHOOK_SECRET (lines 254-255) when the environment sets none, and when it sets one.
NoSecret == <<>>
sKey == <<"k">>
\* What a request supplies: the X-Webhook-Secret header and the secret query parameter.
NoCred == [header |-> Absent, arg |-> Absent]
Creds ==
    {NoCred,
     [header |-> PyStr(<<" ">> \o sKey), arg |-> Absent],
     [header |-> PyStr(<<"x">>), arg |-> Absent],
     [header |-> Absent, arg |-> PyStr(sKey)],
     [header |-> PyStr(<<>>), arg |-> PyStr(sKey \o sKey)]}
\* (req.headers.get(..) or "").strip()
Supplied(v) == Strip(Or(Get([x |-> v], "x"), PyStr(<<>>)).s)
\* A plausible slip: any non-empty secret is accepted, the comparison forgotten.
AuthorisedAnySecret(c, secret) ==
    IF secret = NoSecret THEN TRUE
    ELSE Supplied(c.header) # <<>> \/ Supplied(c.arg) # <<>>

\* _authorised_webhook (lines 256-266)
AuthorisedWebhook(c, secret) ==
    IF secret = NoSecret THEN TRUE
    ELSE Supplied(c.header) = secret \/ Supplied(c.arg) = secret
\* The credentials the check has read: none when no secret is configured.
CredRead(c, secret) == IF secret = NoSecret THEN NoCred ELSE c

\* No response body: an ingestion answers with a status only.
NoResp == [has |-> FALSE, body |-> InitState]

\* The last ingestion request: its endpoint, payload, status, the time it was
\* handled at, and whether it repeated the ingestion before it.
NoRequest ==
    [ep |-> "none", data |-> EmptyDict, cred |-> NoCred, code |-> 0, at |-> 0, twice |-> FALSE]
Handled(ep, p, c, exc, now, before) ==
    [ep |-> ep, data |-> p, cred |-> c, code |-> IF exc THEN 400 ELSE 200, at |-> now,
     twice |-> before.ep = ep /\ before.data = p]
\* abort(401) comes before the payload is read.
Denied(ep, c, now) ==
    [ep |-> ep, data |-> EmptyDict, cred |-> c, code |-> 401, at |-> now, twice |-> FALSE]

\* The clients of /verify_secret (the first X-Forwarded-For entry, or the peer address).
Clients == {"a", "b"}
\* A thread that is handling no /verify_secret request.
NoVerify == [pc |-> "idle", ip |-> "a", now |-> 0, right |-> FALSE, kept |-> <<>>]

\* No attempt has been answered.
NoneTried == [ip \in Clients |-> EmptyBag]

\* Everything but STATE, as it is when the process has started.
InitService ==
    /\ clock = 1
    /\ last = NoRequest
    /\ resp = NoResp
    /\ published = [n |-> 0, macro |-> InitState, nstock |-> 0, stock |-> EmptyDict]
    /\ disk = [exists |-> FALSE, content |-> InitState]
    /\ lock = NoThread
    /\ pc = [t \in Threads |-> "idle"]
    /\ req = [t \in Threads |-> [ep |-> "none", data |-> EmptyDict, now |-> 0]]
    /\ snap = [t \in Threads |-> InitState]
    /\ committed = {InitState}
    /\ ATTEMPTS = [ip \in Clients |-> <<>>]
    /\ time = 0
    /\ vpc = [t \in Threads |-> NoVerify]
    /\ tried = NoneTried

Init == State = InitState /\ InitService /\ WEBHOOK_SECRET = NoSecret

concVars == <<lock, pc, req, snap, committed>>
\* The attempt limiter of /verify_secret, which no other handler touches.
limVars == <<ATTEMPTS, time, vpc, tried>>

\* Lines 995-1004 of /webhook: what leaves the locked section.
WebhookDone(p, c, r) ==
    /\ State' = r.S
    /\ clock' = clock + 1
    /\ last' = Handled("webhook", p, c, r.exc, clock, last)
    /\ disk' = IF r.exc THEN disk ELSE Saved(r.S)
    /\ published' = IF r.exc THEN published
                    ELSE IF r.stock THEN EmitStock(published, r.out)
                    ELSE EmitMacro(published, r.S)
    /\ resp' = NoResp
    /\ UNCHANGED <<concVars, limVars, WEBHOOK_SECRET>>

\* abort(401) (lines 709-710, 782-783): the handler has done nothing else.
Abort401(ep, c) ==
    /\ clock' = clock + 1
    /\ last' = Denied(ep, c, clock)
    /\ resp' = NoResp
    /\ UNCHANGED <<State, disk, published, concVars, limVars, WEBHOOK_SECRET>>

\* POST /webhook (lines 781-1004), handled with no other request in between.
Webhook(p, c) ==
    /\ clock <= MaxClock
    /\ IF AuthorisedWebhook(c, WEBHOOK_SECRET)
       THEN WebhookDone(p, CredRead(c, WEBHOOK_SECRET),
                        WebhookLocked(State, ExtractMeta(p), Unwrap(p), clock))
       ELSE Abort401("webhook", c)

\* Lines 760-769 of /ingest_macro
IngestDone(p, c, r) ==
    /\ State' = r.S
    /\ clock' = clock + 1
    /\ last' = Handled("ingest_macro", p, c, r.exc, clock, last)
    /\ disk' = IF r.exc THEN disk ELSE Saved(r.S)
    /\ published' = IF r.exc THEN published ELSE EmitMacro(published, r.S)
    /\ resp' = NoResp
    /\ UNCHANGED <<concVars, limVars, WEBHOOK_SECRET>>

\* POST /ingest_macro (lines 708-769)
IngestMacro(p, c) ==
    /\ clock <= MaxClock
    /\ IF AuthorisedWebhook(c, WEBHOOK_SECRET)
       THEN IngestDone(p, CredRead(c, WEBHOOK_SECRET), IngestLocked(State, Unwrap(p), clock))
       ELSE Abort401("ingest_macro", c)

\* GET /state and GET /health (lines 655-668): a copy of STATE.
GetState ==
    /\ resp' = [has |-> TRUE, body |-> State]
    /\ UNCHANGED <<State, clock, last, published, disk, concVars, limVars, WEBHOOK_SECRET>>

\* on_connect (lines 1046-1051): the state replayed to the new subscriber.
OnConnectState(S, now) == IF IsNumber(S.server_ts) THEN S ELSE [S EXCEPT !.server_ts = PyInt(now)]
\* A plausible slip: the replay is emitted to the subscriber and broadcast as well.
ReplayedTwice(S) ==
    /\ State' = S
    /\ published' = EmitMacro(EmitMacro(published, S), S)

Replayed(S) ==
    /\ State' = S
    /\ published' = EmitMacro(published, S)

Connect ==
    /\ clock <= MaxClock
    /\ clock' = clock + 1
    /\ Replayed(OnConnectState(State, clock))
    /\ resp' = NoResp
    /\ UNCHANGED <<last, disk, concVars, limVars, WEBHOOK_SECRET>>

\* json.dump then json.load of a dictionary key: a key that is no string
\* comes back as its JSON text.
sNull == <<"n","u","l","l">>
sTrue == <<"t","r","u","e">>
sFalse == <<"f","a","l","s","e">>
JsonKey(k) ==
    IF k.t = "str" THEN k
    ELSE IF k = PyNone THEN PyStr(sNull)
    ELSE IF k.t = "bool" THEN PyStr(IF k.n = 1 THEN sTrue ELSE sFalse)
    ELSE PyStr(ToStr(k))
\* The same for a dictionary keyed by payload values (of two keys with one
\* text, one is kept); the keys of last_by_ref are str(ref) already.
JsonMap(m) ==
    [j \in {JsonKey(k) : k \in DOMAIN m} |-> m[CHOOSE k \in DOMAIN m : JsonKey(k) = j]]
JsonMonitor(m) ==
    [last_by_ref |-> m.last_by_ref,
     last_by_ticker |-> JsonMap(m.last_by_ticker),
     last_hello |-> JsonMap(m.last_hello)]

\* _normalise_server_ts (lines 302-313).  The file's _server_ts is None or a
\* stamp int(time.time() * 1000) written by a handler: milliseconds, which the
\* function returns as they are (the model's clock stands for such stamps).
NormaliseServerTs(ts) == IF ts.t = "int" THEN ts ELSE PyNone

\* Lines 333-340: the keys copied from the file into the fresh STATE.
LoadKeys(S, cached) ==
    [S EXCEPT !.cycle = cached.cycle, !.vol = cached.vol, !.flow = cached.flow,
              !.count = cached.count, !.sahm = cached.sahm,
              !.monitor = JsonMonitor(cached.monitor),
              !.server_ts = cached.server_ts,
              !.secret = [sk \in SecretKeys |-> cached.secret[sk]]]

\* _load_state_from_disk (lines 316-343); aged: the file's _server_ts is more
\* than STATE_MAX_AGE_SECS before the time of loading.
LoadStateFromDisk(S, d, aged) ==
    IF ~d.exists THEN S
    ELSE IF Truthy(NormaliseServerTs(d.content.server_ts)) /\ aged THEN S
    ELSE LoadKeys(S, d.content)

\* The process started again.
Restarted(aged) ==
    [ep |-> IF aged THEN "restart_aged" ELSE "restart", data |-> EmptyDict, cred |-> NoCred,
     code |-> 0, at |-> last.at, twice |-> FALSE]

\* The process ends, by its exit (atexit saves STATE, line 643) or by a kill,
\* and starts again: STATE is built anew and the file loaded (line 644).
Restart(atexit, aged) ==
    /\ disk' = IF atexit THEN Saved(State) ELSE disk
    /\ State' = LoadStateFromDisk(InitState, disk', aged)
    /\ last' = Restarted(aged)
    /\ resp' = NoResp
    /\ UNCHANGED <<clock, published, concVars, limVars, WEBHOOK_SECRET>>

Next ==
    \/ \E p \in Payloads : Webhook(p, NoCred)
    \/ \E p \in Payloads : IngestMacro(p, NoCred)
    \/ GetState
    \/ Connect

Spec == Init /\ [][Next]_vars

(***************************************************************************)
(* The same handlers on the payloads of the dialects: numeric cycles,      *)
(* envelopes, numbered cards 1 and 2.                                      *)
(***************************************************************************)
PayloadsDialect ==
    {pCycle(n) : n \in CycleInputs}
    \cup {pEnvelope, pEnvelopeOuter, pEnvelopeBoth, pEnvelopeTwice}
    \cup {pCard1Silver, pCard1Labelled, pCard1OneLabel, pCard1Single, pCard2Msg}

NextDialect ==
    \/ \E p \in PayloadsDialect : Webhook(p, NoCred)
    \/ \E p \in PayloadsDialect : IngestMacro(p, NoCred)

SpecDialect == Init /\ [][NextDialect]_vars

(***************************************************************************)
(* The service with its restarts: the snapshot file outlives the process.  *)
(***************************************************************************)
PayloadsRestart == {pCard5(4), pSecretBad, pScada, pCard2Typed}

NextRestart ==
    \/ \E p \in PayloadsRestart : Webhook(p, NoCred)
    \/ \E p \in PayloadsRestart : IngestMacro(p, NoCred)
    \/ Connect
    \/ \E atexit \in BOOLEAN, aged \in BOOLEAN : Restart(atexit, aged)

SpecRestart == Init /\ [][NextRestart]_vars

(***************************************************************************)
(* The same service started with WEBHOOK_SECRET set in the environment;    *)
(* the requests carry credentials.                                         *)
(***************************************************************************)
PayloadsAuth == {pCard5(4), pSecretBad, pScada}

InitAuth == State = InitState /\ InitService /\ WEBHOOK_SECRET = sKey

NextAuth ==
    \/ \E p \in PayloadsAuth, c \in Creds : Webhook(p, c)
    \/ \E p \in PayloadsAuth, c \in Creds : IngestMacro(p, c)
    \/ GetState
    \/ Connect

SpecAuth == InitAuth /\ [][NextAuth]_vars

(***************************************************************************)
(* /verify_secret and its attempt limiter (app.py lines 20-25, 1030-1043). *)
(* time is time.time() in seconds; tried is the record of every attempt    *)
(* answered, by client: a bag of [at, code], when the attempt was made and *)
(* the status it got.                                                      *)
(***************************************************************************)
ATTEMPT_WINDOW_SECS == 300
ATTEMPT_MAX == 6
VAULT_PASSWORD == <<"t","o","f","f","e","e","s">>
\* The password field of the request body: missing, right, wrong.
Passwords == {PyNone, PyStr(VAULT_PASSWORD), PyStr(<<"x">>)}
\* Seconds between two readings of the clock that differ.
TickSecs == 150

\* [t for t in ATTEMPTS.get(ip, []) if now - t < ATTEMPT_WINDOW_SECS]
FilterAttempts(l, now) == SelectSeq(l, LAMBDA t : now - t < ATTEMPT_WINDOW_SECS)
\* ATTEMPTS[ip].append(now)
AppendAttempt(l, now) == Append(l, now)
\* len(ATTEMPTS[ip]) >= ATTEMPT_MAX
RateLimited(l) == Len(l) >= ATTEMPT_MAX
\* (request.get_json(silent=True) or {}).get("password") == VAULT_PASSWORD
PasswordRight(pw) == pw = PyStr(VAULT_PASSWORD)
\* The status of an attempt that found the list l after the filter.
VerifyCode(l, pw) == IF RateLimited(l) THEN 429 ELSE IF PasswordRight(pw) THEN 200 ELSE 401
\* The list the attempt leaves behind.
VerifyKept(l, pw, now) == IF VerifyCode(l, pw) = 401 THEN AppendAttempt(l, now) ELSE l

Answered(ip, now, code) == [tried EXCEPT ![ip] = @ (+) SetToBag({[at |-> now, code |-> code]})]
Attempts == BagCardinality(tried["a"]) + BagCardinality(tried["b"])

InitLimit == State = InitState /\ InitService /\ WEBHOOK_SECRET = NoSecret

ingestVars == <<State, clock, last, resp, published, disk, concVars, WEBHOOK_SECRET>>

\* POST /verify_secret (lines 1030-1043), handled with no other request in between.
VerifySecret(ip, pw) ==
    /\ Attempts < MaxTried
    /\ ATTEMPTS' = [ATTEMPTS EXCEPT ![ip] = VerifyKept(FilterAttempts(@, time), pw, time)]
    /\ tried' = Answered(ip, time, VerifyCode(FilterAttempts(ATTEMPTS[ip], time), pw))
    /\ UNCHANGED <<time, vpc, ingestVars>>

\* Time passes.
Tick ==
    /\ time < MaxTime
    /\ time' = time + TickSecs
    /\ UNCHANGED <<ATTEMPTS, vpc, tried, ingestVars>>

NextLimit ==
    \/ \E ip \in Clients, pw \in Passwords : VerifySecret(ip, pw)
    \/ Tick

SpecLimit == InitLimit /\ [][NextLimit]_vars

(***************************************************************************)
(* /verify_secret handled by concurrent threads: ATTEMPTS is read and       *)
(* written with no lock held, so the threads interleave between the         *)
(* statements of the handler.                                               *)
(***************************************************************************)
\* Line 1033: now = time.time()
VerifyBegin(t, ip, pw) ==
    /\ vpc[t].pc = "idle"
    /\ Attempts + Cardinality({u \in Threads : vpc[u].pc # "idle"}) < MaxTried
    /\ vpc' = [vpc EXCEPT ![t] = [pc |-> "filter", ip |-> ip, now |-> time,
                                   right |-> PasswordRight(pw), kept |-> <<>>]]
    /\ UNCHANGED <<ATTEMPTS, time, tried, ingestVars>>

\* Line 1034, right-hand side: the filtered copy of the list.
VerifyFilter(t) ==
    /\ vpc[t].pc = "filter"
    /\ vpc' = [vpc EXCEPT ![t].pc = "store",
                           ![t].kept = FilterAttempts(ATTEMPTS[vpc[t].ip], vpc[t].now)]
    /\ UNCHANGED <<ATTEMPTS, time, tried, ingestVars>>

\* Line 1034, the assignment ATTEMPTS[ip] = ...
VerifyStore(t) ==
    /\ vpc[t].pc = "store"
    /\ ATTEMPTS' = [ATTEMPTS EXCEPT ![vpc[t].ip] = vpc[t].kept]
    /\ vpc' = [vpc EXCEPT ![t].pc = "check", ![t].kept = <<>>]
    /\ UNCHANGED <<time, tried, ingestVars>>

\* Lines 1036-1040: the limit, then the password.
VerifyCheck(t) ==
    /\ vpc[t].pc = "check"
    /\ IF RateLimited(ATTEMPTS[vpc[t].ip])
       THEN /\ tried' = Answered(vpc[t].ip, vpc[t].now, 429)
            /\ vpc' = [vpc EXCEPT ![t] = NoVerify]
       ELSE IF vpc[t].right
       THEN /\ tried' = Answered(vpc[t].ip, vpc[t].now, 200)
            /\ vpc' = [vpc EXCEPT ![t] = NoVerify]
       ELSE /\ tried' = tried
            /\ vpc' = [vpc EXCEPT ![t].pc = "append"]
    /\ UNCHANGED <<ATTEMPTS, time, ingestVars>>

\* Lines 1042-1043: ATTEMPTS[ip].append(now), answered 401.
VerifyAppend(t) ==
    /\ vpc[t].pc = "append"
    /\ ATTEMPTS' = [ATTEMPTS EXCEPT ![vpc[t].ip] = AppendAttempt(@, vpc[t].now)]
    /\ tried' = Answered(vpc[t].ip, vpc[t].now, 401)
    /\ vpc' = [vpc EXCEPT ![t] = NoVerify]
    /\ UNCHANGED <<time, ingestVars>>

\* The service after client "a" has made ATTEMPT_MAX - 1 attempts with a wrong
\* password, one after the other, at the instant 0: each was answered 401 and kept.
InitLimitConc ==
    /\ State = InitState
    /\ clock = 1 /\ last = NoRequest /\ resp = NoResp /\ lock = NoThread
    /\ published = [n |-> 0, macro |-> InitState, nstock |-> 0, stock |-> EmptyDict]
    /\ disk = [exists |-> FALSE, content |-> InitState]
    /\ pc = [t \in Threads |-> "idle"]
    /\ req = [t \in Threads |-> [ep |-> "none", data |-> EmptyDict, now |-> 0]]
    /\ snap = [t \in Threads |-> InitState]
    /\ committed = {InitState}
    /\ WEBHOOK_SECRET = NoSecret
    /\ time = 0
    /\ vpc = [t \in Threads |-> NoVerify]
    /\ ATTEMPTS = [ip \in Clients |-> IF ip = "a" THEN [i \in 1..(ATTEMPT_MAX - 1) |-> 0] ELSE <<>>]
    /\ tried = [NoneTried EXCEPT !["a"] = [e \in {[at |-> 0, code |-> 401]} |-> ATTEMPT_MAX - 1]]

NextLimitConc ==
    \/ \E t \in Threads, ip \in Clients, pw \in Passwords : VerifyBegin(t, ip, pw)
    \/ \E t \in Threads : VerifyFilter(t)
    \/ \E t \in Threads : VerifyStore(t)
    \/ \E t \in Threads : VerifyCheck(t)
    \/ \E t \in Threads : VerifyAppend(t)
    \/ Tick

SpecLimitConc == InitLimitConc /\ [][NextLimitConc]_vars

(***************************************************************************)
(* The alert rule on its own: the two levels are drawn, the rule applied.  *)
(***************************************************************************)
WarLevels == {PyNone, PyFloat(200)} \cup {PyInt(i) : i \in -1..MaxLevel}

\* A stored pack with level l.
LevelSlot(l) == [Slot(DictTag) EXCEPT !.level = l]
StateWithLevels(v, g) ==
    [InitState EXCEPT !.secret["vix"] = LevelSlot(v), !.secret["gvz"] = LevelSlot(g)]

InitWar ==
    /\ State \in {StateWithLevels(v, g) : v \in WarLevels, g \in WarLevels}
    /\ InitService
    /\ WEBHOOK_SECRET = NoSecret

Recompute ==
    /\ State.secret["war"] = Slot(PyNone)
    /\ State' = RecomputeWar(State).S
    /\ UNCHANGED <<clock, last, resp, published, disk, concVars, limVars, WEBHOOK_SECRET>>

NextWar == Recompute

SpecWar == InitWar /\ [][NextWar]_vars

(***************************************************************************)
(* Requests handled concurrently.  An ingestion takes STATE_LOCK and       *)
(* stamps the state (Begin), does the rest of the locked section and       *)
(* leaves it (Finish), then emits its copy (Publish).  Readers and new     *)
(* subscribers take the lock for one step.  committed holds every value    *)
(* STATE had at a moment when the lock was free.                           *)
(***************************************************************************)
Endpoints == {"webhook", "ingest_macro"}
PayloadsConc == {pCard5(4), pSecretBad, pScada}

\* A plausible slip: the state is touched without waiting for the lock.
AcquireNoWait(l) == TRUE

\* with STATE_LOCK: entered when no request holds the lock.
Acquire(l) == l = NoThread

\* Lines 730-731 and 805-825
Begin(t, ep, p) ==
    /\ pc[t] = "idle"
    /\ clock <= MaxClock
    /\ Acquire(lock)
    /\ lock' = t
    /\ pc' = [pc EXCEPT ![t] = "locked"]
    /\ req' = [req EXCEPT ![t] = [ep |-> ep, data |-> p, now |-> clock]]
    /\ State' = IF ep = "webhook" THEN WebhookStamp(State, clock) ELSE IngestStamp(State, clock)
    /\ clock' = clock + 1
    /\ UNCHANGED <<last, resp, published, disk, snap, committed, limVars, WEBHOOK_SECRET>>

\* The rest of the locked section of request q.
LaneOf(q) ==
    IF q.ep = "webhook" THEN WebhookLane(State, ExtractMeta(q.data), Unwrap(q.data), q.now)
    ELSE MacroResult(IngestLane(State, Unwrap(q.data)))

\* A plausible slip: acquire and release written out by hand, the release
\* only at the end of the section and before its return, so that an exception
\* raised inside the section leaves the lock held.
ReleasedOnSuccess(t, r) ==
    /\ State' = r.S
    /\ lock' = IF r.exc THEN lock ELSE NoThread
    /\ committed' = committed \cup {r.S}
    /\ pc' = [pc EXCEPT ![t] = IF r.exc \/ r.stock THEN "idle" ELSE "emit"]
    /\ snap' = [snap EXCEPT ![t] = IF r.exc \/ r.stock THEN @ ELSE r.S]
    /\ disk' = IF r.exc THEN disk ELSE Saved(r.S)
    /\ published' = IF ~r.exc /\ r.stock THEN EmitStock(published, r.out) ELSE published
    /\ UNCHANGED <<clock, last, resp, req, limVars, WEBHOOK_SECRET>>

\* Leaving the with block, by its end, by a return or by an exception,
\* releases the lock; payload = copy.deepcopy(STATE) was taken inside it.
Released(t, r) ==
    /\ State' = r.S
    /\ lock' = NoThread
    /\ committed' = committed \cup {r.S}
    /\ pc' = [pc EXCEPT ![t] = IF r.exc \/ r.stock THEN "idle" ELSE "emit"]
    /\ snap' = [snap EXCEPT ![t] = IF r.exc \/ r.stock THEN @ ELSE r.S]
    /\ disk' = IF r.exc THEN disk ELSE Saved(r.S)
    /\ published' = IF ~r.exc /\ r.stock THEN EmitStock(published, r.out) ELSE published
    /\ UNCHANGED <<clock, last, resp, req, limVars, WEBHOOK_SECRET>>

Finish(t) ==
    /\ pc[t] = "locked"
    /\ Released(t, LaneOf(req[t]))

\* Lines 763 and 998: socketio.emit("macro_update", payload), after the with block.
Publish(t) ==
    /\ pc[t] = "emit"
    /\ published' = EmitMacro(published, snap[t])
    /\ pc' = [pc EXCEPT ![t] = "idle"]
    /\ UNCHANGED <<State, clock, last, resp, disk, lock, req, snap, committed, limVars,
                   WEBHOOK_SECRET>>

\* GET /state and GET /health: the copy is taken under the lock.
ReadState ==
    /\ Acquire(lock)
    /\ resp' = [has |-> TRUE, body |-> State]
    /\ UNCHANGED <<State, clock, last, published, disk, concVars, limVars, WEBHOOK_SECRET>>

\* on_connect: the stamp and the emit are under the lock.
ConnectLocked ==
    /\ Acquire(lock)
    /\ clock <= MaxClock
    /\ clock' = clock + 1
    /\ Replayed(OnConnectState(State, clock))
    /\ committed' = committed \cup {OnConnectState(State, clock)}
    /\ UNCHANGED <<last, resp, disk, lock, pc, req, snap, limVars, WEBHOOK_SECRET>>

NextConc ==
    \/ \E t \in Threads, ep \in Endpoints, p \in PayloadsConc : Begin(t, ep, p)
    \/ \E t \in Threads : Finish(t)
    \/ \E t \in Threads : Publish(t)
    \/ ReadState
    \/ ConnectLocked

SpecConc == Init /\ [][NextConc]_vars

(***************************************************************************)
(* Requests that wait for STATE_LOCK.  A request reaches its with           *)
(* STATE_LOCK statement (Arrive) and waits there until the lock is free     *)
(* and is granted to it (Enter); an ingestion then goes on as above         *)
(* (Finish, Publish), GET /state and on_connect do their locked section     *)
(* and leave it (Leave).  GET /state requests keep arriving for ever.       *)
(***************************************************************************)
Readers == {"state", "connect"}
\* At /webhook the three payloads end the locked section by the return of the
\* stock lane, by abort(400) and by its end; at /ingest_macro the secret block
\* ends it by an exception.
PayloadsLive == {pScada, pWatchNoRef, pSecretBad}
\* The waiting requests that will read the time once they hold the lock.
Timed == {u \in Threads : pc[u] = "waiting" /\ req[u].ep # "state"}

\* Lines 730, 805, 667 and 1048: the request is at its with STATE_LOCK.
Arrive(t, ep, p) ==
    /\ pc[t] = "idle"
    /\ ep = "state" \/ clock + Cardinality(Timed) <= MaxLive
    /\ pc' = [pc EXCEPT ![t] = "waiting"]
    /\ req' = [req EXCEPT ![t] = [ep |-> ep, data |-> p, now |-> 0]]
    /\ UNCHANGED <<State, clock, last, resp, published, disk, lock, snap, committed,
                   limVars, WEBHOOK_SECRET>>

\* The lock is granted to the waiting request; an ingestion stamps the state
\* (lines 731 and 807-825).
Enter(t) ==
    /\ pc[t] = "waiting"
    /\ Acquire(lock)
    /\ lock' = t
    /\ pc' = [pc EXCEPT ![t] = "locked"]
    /\ req' = [req EXCEPT ![t].now = IF req[t].ep = "state" THEN 0 ELSE clock]
    /\ State' = IF req[t].ep = "webhook" THEN WebhookStamp(State, clock)
                ELSE IF req[t].ep = "ingest_macro" THEN IngestStamp(State, clock)
                ELSE State
    /\ clock' = IF req[t].ep = "state" THEN clock ELSE clock + 1
    /\ UNCHANGED <<last, resp, published, disk, snap, committed, limVars, WEBHOOK_SECRET>>

\* The locked section of an ingestion ends.
FinishIngestion(t) ==
    /\ req[t].ep \in Endpoints
    /\ Finish(t)

\* The locked section of GET /state (lines 667-668) and of on_connect
\* (lines 1048-1051) ends, and the lock is released.
Leave(t) ==
    /\ pc[t] = "locked"
    /\ req[t].ep \in Readers
    /\ lock' = NoThread
    /\ pc' = [pc EXCEPT ![t] = "idle"]
    /\ IF req[t].ep = "state"
         THEN /\ resp' = [has |-> TRUE, body |-> State]
              /\ UNCHANGED <<State, published, committed>>
         ELSE /\ Replayed(OnConnectState(State, req[t].now))
              /\ committed' = committed \cup {OnConnectState(State, req[t].now)}
              /\ UNCHANGED resp
    /\ UNCHANGED <<clock, last, disk, req, snap, limVars, WEBHOOK_SECRET>>

NextLive ==
    \/ \E t \in Threads, ep \in Endpoints, p \in PayloadsLive : Arrive(t, ep, p)
    \/ \E t \in Threads, ep \in Readers : Arrive(t, ep, EmptyDict)
    \/ \E t \in Threads : Enter(t)
    \/ \E t \in Threads : FinishIngestion(t)
    \/ \E t \in Threads : Leave(t)
    \/ \E t \in Threads : Publish(t)

\* The step of NextLive by which the locked section of the ingestion of
\* request t ends: FinishIngestion(t) takes it, and is enabled whenever the
\* request is in its locked section.
SectionEnds(t) ==
    /\ pc[t] = "locked"
    /\ req[t].ep \in Endpoints
    /\ \E to \in {"idle", "emit"} : pc' = [pc EXCEPT ![t] = to]

\* Fair scheduling: a request inside its locked section goes on to the end of
\* it, and a waiting request that finds the lock free again and again is
\* granted it.
FairLive ==
    \A t \in Threads :
        /\ SF_vars(Enter(t))
        /\ WF_pc(SectionEnds(t))
        /\ WF_vars(Leave(t))

SpecLive == Init /\ [][NextLive]_vars /\ FairLive

(***************************************************************************)
(* The properties of the specification, one section per claim.             *)
(***************************************************************************)
\* The snapshots seen outside the lock: the last GET /state body, and the
\* last macro_update (sent by an ingestion or replayed on connect).
Observed ==
    (IF resp.has THEN {resp.body} ELSE {}) \cup (IF published.n > 0 THEN {published.macro} ELSE {})

\* secret.<k>.level of state S; None when the sub-record holds no level.
StoredLevel(S, k) == IF SlotIsDict(S.secret[k]) THEN SlotGet(S.secret[k], "level") ELSE PyNone

sSILVER == <<"S","I","L","V","E","R">>
sGOLD == <<"G","O","L","D">>

\* C1: in every snapshot seen outside the lock that holds a vix or gvz level,
\* secret.war is the value the alert rule yields for the two stored levels.
C1_WarFollowsLevels ==
    \A S \in Observed :
        (IsInt(StoredLevel(S, "vix")) \/ IsInt(StoredLevel(S, "gvz")))
            => S.secret["war"] = WarOf(StoredLevel(S, "vix"), StoredLevel(S, "gvz"))

\* The clause of one instrument in war.reason.
ClauseX(v) == InstitutionalX \o IntToStr(v.n)
ClauseY(g) == InstitutionalY \o IntToStr(g.n)
\* The rule as the claim states it.
RuleX(v) == v.t = "int" /\ v.n <= 4
RuleY(g) == g.t = "int" /\ (g.n <= 3 \/ g.n >= 8)
RuleReason(v, g) ==
    IF RuleX(v) /\ RuleY(g) THEN ClauseX(v) \o <<",", " ">> \o ClauseY(g)
    ELSE IF RuleX(v) THEN ClauseX(v)
    ELSE IF RuleY(g) THEN ClauseY(g)
    ELSE <<>>

\* C2: once the rule has been applied to a pair of levels, war.active is
\* (vix.level is an int <= 4) or (gvz.level is an int <= 3 or >= 8), war.reason
\* lists one clause per triggering instrument with its level, joined by ", ",
\* and is empty exactly when active is false.
C2_AlertRule ==
    State.secret["war"] # Slot(PyNone) =>
        /\ State.secret["war"].active
              = PyBool(RuleX(StoredLevel(State, "vix")) \/ RuleY(StoredLevel(State, "gvz")))
        /\ State.secret["war"].reason
              = PyStr(RuleReason(StoredLevel(State, "vix"), StoredLevel(State, "gvz")))
        /\ (State.secret["war"].reason = PyStr(<<>>)) <=> (State.secret["war"].active = PyBool(FALSE))

\* C2 witness: the rule applied to vix.level 4 and gvz.level 8 names both.
C2_Witness ==
    /\ StoredLevel(State, "vix") = PyInt(4)
    /\ StoredLevel(State, "gvz") = PyInt(8)
    /\ State.secret["war"].active = PyBool(TRUE)
    /\ State.secret["war"].reason = PyStr(ClauseX(PyInt(4)) \o <<",", " ">> \o ClauseY(PyInt(8)))

InstrumentType == [vix |-> <<"V","I","X">>, gvz |-> <<"G","V","Z">>]

\* C3: after an accepted payload whose type is VIX or GVZ, secret.vix or
\* secret.gvz holds the level of the payload and secret.war is the alert for
\* the stored levels (so VIX level 6 then GVZ level 2 ends with "Institutional Y: 2").
C3_TypedInstrumentStored ==
    \A k \in {"vix", "gvz"} :
        (last.code = 200 /\ TypOf(Unwrap(last.data)) = InstrumentType[k])
            => /\ StoredLevel(State, k) = Get(Unwrap(last.data), "level")
               /\ State.secret["war"] = WarOf(StoredLevel(State, "vix"), StoredLevel(State, "gvz"))

\* C4: count is null or an integer in 0..100, and an accepted typed CARD3
\* payload with count n leaves count at n clamped into 0..100.
C4_CountClamped ==
    /\ State.count = PyNone \/ (State.count.t = "int" /\ State.count.n \in 0..100)
    /\ \A n \in CountInputs :
          (last.code = 200 /\ last.data = pTyped3Count(n))
              => State.count = PyInt(IF n < 0 THEN 0 ELSE IF n > 100 THEN 100 ELSE n)

\* C4 witness: a count of 130 was accepted and stored as 100.
C4_Witness == last.code = 200 /\ last.data = pTyped3Count(130) /\ State.count = PyInt(100)

\* C5: after /webhook has accepted a payload that supplies a numeric cycle,
\* the stored cycle is an integer in 0..120.
C5_NumericCycleInRange ==
    (last.ep = "webhook" /\ last.code = 200 /\ IsNumber(Get(Unwrap(last.data), "cycle")))
        => (State.cycle.t = "int" /\ State.cycle.n \in 0..120)

\* The payload keys that can supply a classification field, msg included.
Aliases ==
    [regime |-> {"regime", "cycle_regime", "cycle", "msg"},
     cycle |-> {"cycle", "regime", "cycle_regime", "msg"},
     vol |-> {"vol", "volatility", "vix_state", "msg"},
     sahm |-> {"sahm", "sahm_value", "sahm_trigger", "msg"},
     spx_dd |-> {"spx_dd", "spxDrawdown", "dd", "drawdown"}]
\* d supplies a present, non-empty value under one of the keys ks.
Supplies(d, ks) == \E k \in ks \cap Keys : Has(d, k) /\ d[k] # PyNone /\ d[k] # PyStr(<<>>)

\* C6: an ingestion changes a classification field only if the payload
\* supplies a present, non-empty value for it, and changes secret.vix.level or
\* secret.gvz.level only if it supplies a level or a secret block.
C6_SparseMerge ==
    [][last'.at # last.at =>
          /\ \A f \in DOMAIN Aliases :
                State'[f] # State[f] => Supplies(Unwrap(last'.data), Aliases[f])
          /\ \A k \in {"vix", "gvz"} :
                StoredLevel(State', k) # StoredLevel(State, k)
                    => Supplies(Unwrap(last'.data), {"level", "secret"})]_vars

\* The state without the server-assigned timestamps.
NoTs(v) == IF v = Absent THEN Absent ELSE PyNone
CanonOut(o) == IF o = EmptyDict THEN o ELSE Set(o, "_server_ts", PyNone)
CanonMap(m) == [k \in DOMAIN m |-> [m[k] EXCEPT !.ts = PyNone]]
CanonHello(m) ==
    [k \in DOMAIN m |-> [m[k] EXCEPT !.open = NoTs(@), !.close = NoTs(@), !.test = NoTs(@)]]
CanonNodes(m) ==
    [k \in DOMAIN m |-> [m[k] EXCEPT !.ts_scada_status = NoTs(@), !.ts_watch = NoTs(@),
                                     !.last_scada_status = CanonOut(@), !.last_watch = CanonOut(@)]]
CanonOuts(m) == [k \in DOMAIN m |-> CanonOut(m[k])]
Canon(S) ==
    [S EXCEPT !.server_ts = PyNone,
              !.monitor.last_by_ref = CanonMap(@),
              !.monitor.last_by_ticker = CanonMap(@),
              !.monitor.last_hello = CanonHello(@),
              !.nodes.by_ref = CanonNodes(@),
              !.stocks.last_scada_by_ref = CanonOuts(@),
              !.stocks.last_watch_by_ref = CanonOuts(@)]

C8_FlatFieldLast ==
    (last.code = 200 /\ last.data = pCard1Silver) => State.cycle = PyStr(sSILVER)

\* C9: every snapshot delivered (a GET /state body, a macro_update sent or
\* about to be sent) is a value STATE had at a moment when the lock was free.
C9_SnapshotsCommitted ==
    /\ resp.has => resp.body \in committed
    /\ published.n > 0 => published.macro \in committed
    /\ \A t \in Threads : pc[t] = "emit" => snap[t] \in committed

\* C9 witness: snapshots have been delivered while an ingestion is in the
\* middle of its update, STATE being a value no snapshot may show.
C9_Witness ==
    /\ \E t \in Threads : pc[t] = "locked"
    /\ State \notin committed
    /\ resp.has
    /\ published.n > 0

\* C10: a request that is about to publish its macro_update holds STATE_LOCK.
C10_LockHeldAtPublish == \A t \in Threads : pc[t] = "emit" => lock = t

\* C11: every ingestion answered 200 publishes one macro_update, and its
\* payload is the state that ingestion has produced.
C11_PublishesOnSuccess ==
    [][(last'.at # last.at /\ last'.code = 200)
          => /\ published'.n = published.n + 1
             /\ published'.macro = State']_vars

\* The value v is the configured secret, surrounding spaces aside.
IsTheSecret(v) ==
    /\ v.t = "str"
    /\ \E l, r \in {<<>>, <<" ">>} : v.s = l \o WEBHOOK_SECRET \o r

\* C12: with a secret configured, a /webhook or /ingest_macro request whose
\* header and query parameter both fail to carry the secret is answered 401
\* and changes neither the state, nor the snapshot file, nor what was published.
C12_Unauthorised401 ==
    [][(/\ WEBHOOK_SECRET # NoSecret
        /\ last'.at # last.at
        /\ last'.ep \in {"webhook", "ingest_macro"}
        /\ ~IsTheSecret(last'.cred.header)
        /\ ~IsTheSecret(last'.cred.arg))
          => /\ last'.code = 401
             /\ State' = State
             /\ disk' = disk
             /\ published' = published]_vars

\* C12 witness: after an ingestion was saved and published, a request with a
\* wrong header was answered 401.
C12_Witness ==
    /\ WEBHOOK_SECRET = sKey
    /\ last.code = 401
    /\ last.cred.header = PyStr(<<"x">>)
    /\ disk.exists
    /\ published.n > 0
    /\ State = disk.content

\* The attempts of bag B made less than a window before the instant now.
TriedWithin(B, now) ==
    [e \in {x \in BagToSet(B) : x.at <= now /\ now - x.at < 300} |-> B[e]]
\* The attempts of bag B answered 401 in the window that starts at the instant from.
Failed401From(B, from) ==
    [e \in {x \in BagToSet(B) : x.code = 401 /\ x.at >= from /\ x.at - from < 300} |-> B[e]]

\* C13: an attempt of a client that has made six or more attempts in the 5
\* minutes before it is answered 429, whatever the passwords were.
C13_SeventhAttempt429 ==
    [][\A ip \in Clients : \A e \in BagToSet(tried'[ip]) :
          (/\ CopiesIn(e, tried'[ip]) > CopiesIn(e, tried[ip])
           /\ BagCardinality(TriedWithin(tried[ip], e.at)) >= 6)
              => e.code = 429]_vars

\* C14: whatever the interleaving of the /verify_secret requests, no client
\* gets more than six attempts answered 401 in one 5-minute window.
C14_AtMostSixFailures ==
    \A ip \in Clients : \A e \in BagToSet(tried[ip]) :
        BagCardinality(Failed401From(tried[ip], e.at)) <= 6

\* C15: when the process starts again less than 45 days after the snapshot
\* file was saved, the state it loads equals the saved one field for field.
C15_SaveLoadRoundTrip ==
    [][(last' # last /\ last'.ep = "restart" /\ disk'.exists) => State' = disk'.content]_vars

\* C16: an ingestion whose payload is an object, and which the stock lane
\* does not take, is accepted: no error of the normalisation or of the alert
\* recomputation reaches the response.
C16_NormalisationNeverRaises ==
    (/\ last.ep \in {"webhook", "ingest_macro"}
     /\ ~(last.ep = "webhook" /\ IsStock(Unwrap(last.data))))
        => last.code = 200

\* A stored string is in upper case.
UpperCased(v) == v.t = "str" => v.s = UpperStr(v.s)
\* The state item of secret.<k>, None when the sub-record is no dict.
StoredState(S, k) == IF SlotIsDict(S.secret[k]) THEN SlotGet(S.secret[k], "state") ELSE PyNone

\* C17: cycle, regime, vol and the state of every instrument are stored in
\* upper case; flow and card2.text keep the casing of the text supplied.
C17_ClassificationUpperCased ==
    /\ UpperCased(State.cycle) /\ UpperCased(State.regime) /\ UpperCased(State.vol)
    /\ \A k \in {"vix", "gvz", "buy", "sell", "vold"} : UpperCased(StoredState(State, k))
    /\ (last.code = 200 /\ last.data = pCard2Typed)
          => (State.flow = PyStr(sRiskOn) /\ State.card2.text = PyStr(sRiskOn))

\* C18: after an accepted typed CARD2 payload, and after /webhook has
\* accepted a payload with a nested card2 object, card2.text is the text
\* supplied and flow equals it.
C18_Card2MirrorsFlow ==
    (/\ last.code = 200
     /\ \/ last.data = pCard2Typed
        \/ (last.ep = "webhook" /\ last.data = pCard2Nested))
        => (State.card2.text = PyStr(sRiskOn) /\ State.flow = State.card2.text)

\* C19: a step that answers GET /state or GET /health, or that replays the
\* state to a new subscriber, leaves every field of STATE as it was.
C19_ReadersLeaveState ==
    [][(resp'.has \/ (last' = last /\ published'.n = published.n + 1)) => State' = State]_vars

\* C20: a subscriber's connection (the step that takes time without starting
\* a request) happens while no ingestion holds the lock or is in the middle
\* of its update, and replays one macro_update, which carries STATE.
C20_ReplayUnderLock ==
    [][(clock' # clock /\ pc' = pc)
          => /\ lock = NoThread /\ lock' = NoThread
             /\ \A t \in Threads : pc[t] # "locked"
             /\ published'.n = published.n + 1
             /\ published'.macro = State']_vars

\* C20 witness: a subscriber was replayed the state stamped at its connection,
\* no ingestion having published; an ingestion has since begun its update.
C20_Witness ==
    /\ published.n = 1
    /\ ~disk.exists
    /\ published.macro = [InitState EXCEPT !.server_ts = PyInt(1)]
    /\ \E t \in Threads : pc[t] = "locked"
    /\ State # published.macro

\* round(a / b) for a >= 0, b > 0: to the nearest integer, a tie to the even one.
RoundDiv(a, b) ==
    IF 2 * (a % b) < b THEN a \div b
    ELSE IF 2 * (a % b) > b THEN (a \div b) + 1
    ELSE IF (a \div b) % 2 = 0 THEN a \div b
    ELSE (a \div b) + 1
\* n brought into 0..120
Into120(n) == IF n < 0 THEN 0 ELSE IF n > 120 THEN 120 ELSE n

\* C21: after an accepted payload with the numeric cycle n, the stored cycle
\* is n clamped into 0..120 and count is round(cycle / 120 * 100).
C21_CountFromCycle ==
    \A n \in CycleInputs :
        (last.code = 200 /\ last.data = pCycle(n))
            => /\ State.cycle = PyInt(Into120(n))
               /\ State.count = PyInt(RoundDiv(Into120(n) * 100, 120))

\* The nested object of each envelope payload: the value of state, else of
\* payload, else of data.
EnvelopeInner(p) ==
    IF p = pEnvelopeTwice THEN Heap[9] ELSE Heap[7]
Envelopes == {pEnvelope, pEnvelopeOuter, pEnvelopeBoth, pEnvelopeTwice}
\* What the endpoint ep makes of the object d, taken as it is, in state S.
Normalised(ep, S, d, now) ==
    IF ep = "webhook" THEN WebhookLocked(S, ExtractMeta(d), d, now).S
    ELSE IngestLocked(S, d, now).S

\* C22: an ingestion of an envelope leaves the state that the endpoint makes
\* of the nested object alone, taken one level down and not unwrapped again.
C22_EnvelopeUnwrapped ==
    [][(last'.at # last.at /\ last'.data \in Envelopes)
          => State' = Normalised(last'.ep, State, EnvelopeInner(last'.data), last'.at)]_vars

\* C23: after either endpoint has accepted a payload with card = 2 and a
\* non-empty msg, flow is that msg.
C23_Card2MsgIsFlow ==
    (last.code = 200 /\ last.data = pCard2Msg) => State.flow = PyStr(sRiskOn)

\* The card-1 payloads: what each msg holds under the labels (upper-cased;
\* <<>> when the label is missing), and its first and last tokens.
sBEAR == <<"B","E","A","R">>
sCALM == <<"C","A","L","M">>
sLOW == <<"L","O","W">>
sELEVATED == <<"E","L","E","V","A","T","E","D">>
sREGIMEc == <<"R","E","G","I","M","E",":">>
Card1Payloads == {pCard1Silver, pCard1Labelled, pCard1OneLabel, pCard1Single}
Card1Said(p) ==
    IF p = pCard1Labelled THEN [cycle |-> sGOLD, vol |-> sLOW, first |-> <<>>, last |-> <<>>]
    ELSE IF p = pCard1OneLabel THEN [cycle |-> sBEAR, vol |-> <<>>, first |-> sREGIMEc, last |-> sCALM]
    ELSE IF p = pCard1Single THEN [cycle |-> <<>>, vol |-> <<>>, first |-> sGOLD, last |-> sGOLD]
    ELSE [cycle |-> <<>>, vol |-> <<>>, first |-> sGOLD, last |-> sELEVATED]
\* A field that holds no value yet.
Unset(v) == v \in {PyNone, PyStr(<<>>)}
\* The field after the payload: the labelled value when there is one; else
\* the token, when a label is missing and the field is unset; else as it was.
Card1Field(old, labelled, token, fallback) ==
    IF labelled # <<>> THEN PyStr(labelled)
    ELSE IF fallback /\ Unset(old) THEN PyStr(token)
    ELSE old
Card1Fallback24(f) == f.cycle = <<>> \/ f.vol = <<>>

\* C24: an accepted card-1 payload leaves in cycle and vol the labelled value
\* of msg where there is one and, when a label is missing, the first and the
\* last token of msg in whichever of the two was unset; a set value stays.
C24_Card1LabelsThenTokens ==
    [][(last'.at # last.at /\ last'.code = 200 /\ last'.data \in Card1Payloads)
          => /\ State'.cycle = Card1Field(State.cycle, Card1Said(last'.data).cycle,
                                          Card1Said(last'.data).first,
                                          Card1Fallback24(Card1Said(last'.data)))
             /\ State'.vol = Card1Field(State.vol, Card1Said(last'.data).vol,
                                        Card1Said(last'.data).last,
                                        Card1Fallback24(Card1Said(last'.data)))]_vars


\* C25: the macro_update events leave in the order their states were
\* committed: an event never carries a state stamped earlier than the state of
\* the event before it (each locked section stamps _server_ts with a later
\* time than the one before), so the last event carries the latest of the
\* states published.
C25_PublishedInCommitOrder ==
    [][(published'.n = published.n + 1 /\ published.n > 0
          /\ IsInt(published.macro.server_ts) /\ IsInt(published'.macro.server_ts))
          => published'.macro.server_ts.n >= published.macro.server_ts.n]_vars


\* C26: an ingestion request answered 400 leaves the canonical state as it
\* was before the request.
C26_ErrorLeavesState ==
    [][(last'.at # last.at /\ last'.code = 400) => State' = State]_vars

\* C27: a numbered-card payload that is well formed is accepted whatever was
\* received before it, on either endpoint.
C27_NeverPoisoned ==
    [][(last'.at # last.at /\ last'.data \in {pCard5(l) : l \in Card5Levels}
          /\ last'.code # 401)
          => last'.code = 200]_vars


====
